---- MODULE Spec2Model ----
(***************************************************************************)
(* Model of src/puzzle.py: the Puzzle state of a toroidal sliding-tile     *)
(* puzzle, its move generator get_moves and its move application           *)
(* compute_move, and find_goals.  numpy arrays are modelled as a heap of   *)
(* flat buffers plus a (buf, rows, cols, T) descriptor (T: transposed      *)
(* view), so that aliasing between Puzzle objects is visible.              *)
(***************************************************************************)
EXTENDS Integers, Sequences, FiniteSets, TLC

VARIABLES heap,     \* buffer id -> flat row-major cell sequence (ndarray data)
          S,        \* the Puzzle the caller expands (source State)
          R,        \* the object the caller obtained last (successor / other)
          B,        \* the object obtained by applying a second move to R
          moves,    \* the list returned by the last S.get_moves()
          applied,  \* the move handed to compute_move to obtain R
          op,       \* the operation that ran last
          steps,    \* number of successor States the caller has moved on to
          init0,    \* flat list and dimensions the first State was built from
          arg,      \* the arguments of the last construction call
          ret       \* the value returned (or error raised) by the last query

vars == <<heap, S, R, B, moves, applied, op, steps, init0, arg, ret>>

----------------------------------------------------------------------------
(* Bounds *)

MaxW == 4
MaxH == 4
MaxSteps == 2
MaxZeros == 2

Dims == {<<w, h>> : w \in 2..MaxW, h \in 2..MaxH}

----------------------------------------------------------------------------
(* Values *)

NoPos == <<-1, -1>>        \* tile_pos = None / nothing located
NoMove == <<0, NoPos, <<0, 0>>>>
NoGrid == [buf |-> 0, rows |-> 0, cols |-> 0, T |-> FALSE]

NoObj == [kind |-> "None", id |-> 0, grid |-> NoGrid, dims |-> <<0, 0>>, pos |-> NoPos]

Raised(exc) == [kind |-> exc, id |-> 0, grid |-> NoGrid, dims |-> <<0, 0>>, pos |-> NoPos]

IsPuzzle(o) == o.kind = "Puzzle"

\* no call made yet
NoArg == [path |-> "", list |-> << >>, dims |-> <<0, 0>>, grid |-> NoGrid, tile |-> -1]

\* a returned value, or the error raised instead
Returned(kind, value) == [raised |-> "", kind |-> kind, value |-> value]
RaisedIn(exc) == [raised |-> exc, kind |-> "", value |-> << >>]
NoRet == Returned("None", << >>)

\* a buffer id not in use
NewBuf(hp) == CHOOSE b \in 1..(Cardinality(DOMAIN hp) + 1) : b \notin DOMAIN hp

\* an object identity different from the given ones
NewId(used) == CHOOSE i \in 1..(Cardinality(used) + 1) : i \notin used

----------------------------------------------------------------------------
(* Puzzle: construction and accessors *)

Puzzle_init(grid, dimension, empty_tile_position, id) ==
    IF dimension[1] < 2 \/ dimension[2] < 2
    THEN Raised("ValueError")
    ELSE [kind |-> "Puzzle", id |-> id, grid |-> grid,
          dims |-> dimension, pos |-> empty_tile_position]

\* index into the buffer of cell [r, c] of an ndarray
Offset(a, r, c) == IF a.T THEN c * a.rows + r + 1 ELSE r * a.cols + c + 1

\* state[r, c] of an ndarray
Element(hp, a, r, c) == hp[a.buf][Offset(a, r, c)]

\* the scan with the loops exchanged: x outer, y inner
RECURSIVE locate_scan_by_column(_, _, _, _, _)
locate_scan_by_column(hp, state, tile, x, y) ==
    IF x >= state.cols THEN NoPos
    ELSE IF y >= state.rows THEN locate_scan_by_column(hp, state, tile, x + 1, 0)
    ELSE IF Element(hp, state, y, x) = tile THEN <<x, y>>
    ELSE locate_scan_by_column(hp, state, tile, x, y + 1)

RECURSIVE locate_scan(_, _, _, _, _)
locate_scan(hp, state, tile, x, y) ==
    IF y >= state.rows THEN NoPos
    ELSE IF x >= state.cols THEN locate_scan(hp, state, tile, 0, y + 1)
    ELSE IF Element(hp, state, y, x) = tile THEN <<x, y>>
    ELSE locate_scan(hp, state, tile, x + 1, y)

locate_tile(hp, state, tile) == locate_scan(hp, state, tile, 0, 0)

from_state(hp, state, tile_pos, id) ==
    LET pos == IF tile_pos = NoPos THEN locate_tile(hp, state, 0) ELSE tile_pos
    IN  IF pos = NoPos THEN Raised("Exception")
        ELSE Puzzle_init(state, <<state.cols, state.rows>>, pos, id)

\* np.reshape(int_list, (dimension[0], dimension[1])): width taken for rows
np_reshape_width_first(b, dimension) ==
    [buf |-> b, rows |-> dimension[1], cols |-> dimension[2], T |-> FALSE]

np_reshape(b, dimension) ==
    [buf |-> b, rows |-> dimension[2], cols |-> dimension[1], T |-> FALSE]

\* a.T: the same buffer read with the axes exchanged
np_transpose(a) == [buf |-> a.buf, rows |-> a.cols, cols |-> a.rows, T |-> ~a.T]

from_int_list(hp, b, dimension, id) ==
    from_state(hp, np_reshape(b, dimension), NoPos, id)

get_dimensions(p) == p.dims

get_current_pos(p) == p.pos

getitem(hp, p, pos) == Element(hp, p.grid, pos[2], pos[1])

setitem(hp, p, key, value) ==
    [hp EXCEPT ![p.grid.buf][Offset(p.grid, key[2], key[1])] = value]

----------------------------------------------------------------------------
(* get_moves *)

\* cost without the size > 2 guards
cost_unguarded(w, h, x, y, tile) ==
    IF (tile[1] = 0 /\ x = w - 1) \/ (tile[1] = w - 1 /\ x = 0)
    THEN 2
    ELSE IF (tile[2] = 0 /\ y = h - 1) \/ (tile[2] = h - 1 /\ y = 0)
    THEN 2
    ELSE 1

cost(w, h, x, y, tile) ==
    IF (w > 2) /\ ((tile[1] = 0 /\ x = w - 1) \/ (tile[1] = w - 1 /\ x = 0))
    THEN 2
    ELSE IF (h > 2) /\ ((tile[2] = 0 /\ y = h - 1) \/ (tile[2] = h - 1 /\ y = 0))
    THEN 2
    ELSE 1

\* laterals without the collapse of coinciding neighbours
laterals_uncollapsed(w, h, x, y) ==
    << << <<x, (y - 1) % h>>, <<0, -1>> >>, << <<x, (y + 1) % h>>, <<0, 1>> >>,
       << <<(x + 1) % w, y>>, <<-1, 0>> >>, << <<(x - 1) % w, y>>, <<1, 0>> >> >>

\* laterals with the direction labels of right and left exchanged
laterals_mislabelled(w, h, x, y) ==
    LET top    == <<x, (y - 1) % h>>
        right  == <<(x + 1) % w, y>>
        bottom == <<x, (y + 1) % h>>
        left   == <<(x - 1) % w, y>>
    IN  (IF top = bottom
         THEN << <<top, <<0, -1>>>> >>
         ELSE << <<top, <<0, -1>>>>, <<bottom, <<0, 1>>>> >>)
        \o
        (IF right = left
         THEN << <<right, <<1, 0>>>> >>
         ELSE << <<right, <<1, 0>>>>, <<left, <<-1, 0>>>> >>)

\* laterals with the left neighbour appended before the right one
laterals_left_first(w, h, x, y) ==
    LET top    == <<x, (y - 1) % h>>
        right  == <<(x + 1) % w, y>>
        bottom == <<x, (y + 1) % h>>
        left   == <<(x - 1) % w, y>>
    IN  (IF top = bottom
         THEN << <<top, <<0, -1>>>> >>
         ELSE << <<top, <<0, -1>>>>, <<bottom, <<0, 1>>>> >>)
        \o
        (IF right = left
         THEN << <<right, <<-1, 0>>>> >>
         ELSE << <<left, <<1, 0>>>>, <<right, <<-1, 0>>>> >>)

laterals(w, h, x, y) ==
    LET top    == <<x, (y - 1) % h>>
        right  == <<(x + 1) % w, y>>
        bottom == <<x, (y + 1) % h>>
        left   == <<(x - 1) % w, y>>
    IN  (IF top = bottom
         THEN << <<top, <<0, -1>>>> >>
         ELSE << <<top, <<0, -1>>>>, <<bottom, <<0, 1>>>> >>)
        \o
        (IF right = left
         THEN << <<right, <<-1, 0>>>> >>
         ELSE << <<right, <<-1, 0>>>>, <<left, <<1, 0>>>> >>)

\* diagonals without the exclusion of 2x2 puzzles
diagonals_any_size(w, h, x, y) ==
    IF <<x, y>> = <<w - 1, 0>> \/ <<x, y>> = <<0, h - 1>>
    THEN << << <<(x - 1) % w, (y + 1) % h>>, <<1, -1>> >>,
            << <<(x + 1) % w, (y - 1) % h>>, <<-1, 1>> >> >>
    ELSE IF <<x, y>> = <<0, 0>> \/ <<x, y>> = <<w - 1, h - 1>>
    THEN << << <<(x - 1) % w, (y - 1) % h>>, <<1, 1>> >>,
            << <<(x + 1) % w, (y + 1) % h>>, <<-1, -1>> >> >>
    ELSE << >>

diagonals(w, h, x, y) ==
    IF <<h, w>> # <<2, 2>>
    THEN IF <<x, y>> = <<w - 1, 0>> \/ <<x, y>> = <<0, h - 1>>
         THEN << << <<(x - 1) % w, (y + 1) % h>>, <<1, -1>> >>,
                 << <<(x + 1) % w, (y - 1) % h>>, <<-1, 1>> >> >>
         ELSE IF <<x, y>> = <<0, 0>> \/ <<x, y>> = <<w - 1, h - 1>>
         THEN << << <<(x - 1) % w, (y - 1) % h>>, <<1, 1>> >>,
                 << <<(x + 1) % w, (y + 1) % h>>, <<-1, -1>> >> >>
         ELSE << >>
    ELSE << >>

get_moves(p) ==
    LET w == p.dims[1]
        h == p.dims[2]
        x == p.pos[1]
        y == p.pos[2]
        lat == laterals(w, h, x, y)
        dia == diagonals(w, h, x, y)
    IN  [i \in 1..Len(lat) |-> <<cost(w, h, x, y, lat[i][1]), lat[i][1], lat[i][2]>>]
        \o
        [i \in 1..Len(dia) |-> <<3, dia[i][1], dia[i][2]>>]

----------------------------------------------------------------------------
(* compute_move *)

\* copy.copy instead: a new Puzzle sharing the grid of the original
deepcopy_shallow(hp, p, id) ==
    [heap |-> hp, obj |-> [p EXCEPT !.id = id]]

\* copy.deepcopy(from_state): a new Puzzle owning a copy of the grid
deepcopy(hp, p, id) ==
    [heap |-> (NewBuf(hp) :> hp[p.grid.buf]) @@ hp,
     obj  |-> [p EXCEPT !.id = id, !.grid.buf = NewBuf(hp)]]

\* a[p1] = a[p2]; a[p2] = a[p1]: the value at p1 is lost
swap_lossy(hp, a, p1, p2) ==
    setitem(hp, a, p1, getitem(hp, a, p2))

\* a[p1], a[p2] = a[p1], a[p2]: nothing moves
swap_in_place(hp, a, p1, p2) ==
    setitem(setitem(hp, a, p1, getitem(hp, a, p1)), a, p2, getitem(hp, a, p2))

\* a[p1], a[p2] = a[p2], a[p1]
swap(hp, a, p1, p2) ==
    LET v1 == getitem(hp, a, p1)
        v2 == getitem(hp, a, p2)
    IN  setitem(setitem(hp, a, p1, v2), a, p2, v1)

new_empty_tile_pos(w, h, move_to_apply) ==
    <<(move_to_apply[2][1] + move_to_apply[3][1]) % w,
      (move_to_apply[2][2] + move_to_apply[3][2]) % h>>

\* result: the heap after the call and the returned Puzzle
compute_move(hp, self, from, move_to_apply, id) ==
    LET w == self.dims[1]
        h == self.dims[2]
        tile_pos == move_to_apply[2]
        cp == deepcopy(hp, from, id)
    IN  [heap |-> swap(cp.heap, cp.obj, tile_pos, new_empty_tile_pos(w, h, move_to_apply)),
         obj  |-> from_state(cp.heap, cp.obj.grid, tile_pos, id)]

----------------------------------------------------------------------------
(* __eq__ and __hash__ *)

\* comparison of the flattened data, shape ignored
np_array_equal_flat(hp, a1, a2) ==
    hp[a1.buf] = hp[a2.buf]

np_array_equal(hp, a1, a2) ==
    IF <<a1.rows, a1.cols>> # <<a2.rows, a2.cols>>
    THEN FALSE
    ELSE \A r \in 0..(a1.rows - 1) : \A c \in 0..(a1.cols - 1) :
            Element(hp, a1, r, c) = Element(hp, a2, r, c)

Puzzle_eq(hp, self, o) ==
    IF self.id = o.id THEN TRUE
    ELSE IF ~IsPuzzle(o) THEN FALSE
    ELSE np_array_equal(hp, self.grid, o.grid)

\* the names bound at module level, where a bare name inside a method resolves
ModuleGlobals ==
    {"copy", "List", "Tuple", "ISolvable", "np", "PuzzleInternalState", "PuzzleTilePos",
     "IntDirection2D", "PuzzleMove", "Puzzle", "find_goals", "parse_puzzle", "load_puzzles"}

\* __ne__: return not __eq__(o), where __eq__ is looked up as a bare name
Puzzle_ne(hp, self, o) ==
    IF "__eq__" \in ModuleGlobals
    THEN Returned("bool", ~Puzzle_eq(hp, self, o))
    ELSE RaisedIn("NameError")

\* str(grid): the rows in order, each row its cells in order, -1 closing a row
RECURSIVE np_array_str(_, _, _)
np_array_str(hp, a, r) ==
    IF r >= a.rows THEN << >>
    ELSE [c \in 1..a.cols |-> Element(hp, a, r, c - 1)] \o <<-1>>
         \o np_array_str(hp, a, r + 1)

Puzzle_hash(hp, self) == np_array_str(hp, self.grid, 0)

----------------------------------------------------------------------------
(* find_goals *)

\* np.arange(count), then np.append(lin[1:], lin[0]): the 0 tile is last
np_arange(count) == [i \in 1..count |-> i - 1]

goal_lin(count) == Tail(np_arange(count)) \o <<Head(np_arange(count))>>

\* find_goals with the second goal reshaped like the first and not transposed
find_goals_untransposed(hp, puzzle, id1, id2) ==
    LET dim == get_dimensions(puzzle)
        nb == NewBuf(hp)
        hp2 == (nb :> goal_lin(dim[1] * dim[2])) @@ hp
    IN  [heap |-> hp2,
         goal1 |-> from_state(hp2, np_reshape(nb, dim), NoPos, id1),
         goal2 |-> from_state(hp2, np_reshape(nb, <<dim[2], dim[1]>>), NoPos, id2)]

\* result: the heap after the call and the two returned Puzzles; reshape and .T
\* of the contiguous array lin are views of lin
find_goals(hp, puzzle, id1, id2) ==
    LET dim == get_dimensions(puzzle)
        nb == NewBuf(hp)
        hp2 == (nb :> goal_lin(dim[1] * dim[2])) @@ hp
        goal1 == np_reshape(nb, dim)
        goal2 == np_transpose(np_reshape(nb, <<dim[2], dim[1]>>))
    IN  [heap |-> hp2,
         goal1 |-> from_state(hp2, goal1, NoPos, id1),
         goal2 |-> from_state(hp2, goal2, NoPos, id2)]

----------------------------------------------------------------------------
(* The caller: builds a State, expands it, moves on to a successor, or
   probes the States it holds *)

\* the flat list of w*h distinct values whose 0 sits at index k
IntList(d, k) == [i \in 1..(d[1] * d[2]) |-> (i - 1 - k) % (d[1] * d[2])]

Init ==
    \E d \in Dims : \E k \in 0..(d[1] * d[2] - 1) : \E path \in {"from_int_list", "from_state"} :
        /\ heap = (1 :> IntList(d, k))
        /\ S = IF path = "from_int_list"
               THEN from_int_list(heap, 1, d, 1)
               ELSE from_state(heap, np_reshape(1, d), NoPos, 1)
        /\ R = NoObj
        /\ B = NoObj
        /\ moves = << >>
        /\ applied = NoMove
        /\ op = path
        /\ steps = 0
        /\ init0 = [list |-> IntList(d, k), dims |-> d]
        /\ arg = NoArg
        /\ ret = NoRet

GetMoves ==
    /\ moves = << >>
    /\ R = NoObj
    /\ moves' = get_moves(S)
    /\ op' = "get_moves"
    /\ UNCHANGED <<heap, S, R, B, applied, steps, init0, arg, ret>>

ComputeMove ==
    \E i \in 1..Len(moves) :
        LET res == compute_move(heap, S, S, moves[i], NewId({S.id})) IN
        /\ op \in {"get_moves"}
        /\ heap' = res.heap
        /\ R' = res.obj
        /\ applied' = moves[i]
        /\ op' = "compute_move"
        /\ UNCHANGED <<S, B, moves, steps, init0, arg, ret>>

\* the move with the same tile coordinate and negated direction, applied to R
ReverseMove ==
    LET rev == <<applied[1], applied[2], <<-applied[3][1], -applied[3][2]>>>>
        res == compute_move(heap, R, R, rev, NewId({S.id, R.id})) IN
    /\ op = "compute_move"
    /\ heap' = res.heap
    /\ B' = res.obj
    /\ op' = "reverse"
    /\ UNCHANGED <<S, R, moves, applied, steps, init0, arg, ret>>

\* the same move applied to R once more
RepeatMove ==
    LET res == compute_move(heap, R, R, applied, NewId({S.id, R.id})) IN
    /\ op = "compute_move"
    /\ heap' = res.heap
    /\ B' = res.obj
    /\ op' = "repeat"
    /\ UNCHANGED <<S, R, moves, applied, steps, init0, arg, ret>>

\* another generated move applied to the same source: a sibling of R
ComputeSibling ==
    \E j \in 1..Len(moves) :
        LET res == compute_move(heap, S, S, moves[j], NewId({S.id, R.id})) IN
        /\ op = "compute_move"
        /\ moves[j] # applied
        /\ heap' = res.heap
        /\ B' = res.obj
        /\ op' = "sibling"
        /\ UNCHANGED <<S, R, moves, applied, steps, init0, arg, ret>>

\* S != R
CallNe ==
    /\ op \in {"compute_move", "construct"}
    /\ ret' = Puzzle_ne(heap, S, R)
    /\ op' = "ne"
    /\ UNCHANGED <<heap, S, R, B, moves, applied, steps, init0, arg>>

\* the object the caller obtained last
Latest == IF IsPuzzle(B) THEN B ELSE R

\* a cell write through the object obtained last
SetItem ==
    \E x \in 0..(Latest.dims[1] - 1) : \E y \in 0..(Latest.dims[2] - 1) :
        /\ op \in {"compute_move", "construct", "reverse", "repeat", "find_goals"}
        /\ IsPuzzle(Latest)
        /\ heap' = setitem(heap, Latest, <<x, y>>, 0)
        /\ op' = "setitem"
        /\ UNCHANGED <<S, R, B, moves, applied, steps, init0, arg, ret>>

\* an object that is not a Puzzle
OtherObject(id) == [NoObj EXCEPT !.kind = "object", !.id = id]

\* a second object beside S: a State built from the cells of S by from_int_list
\* with the same or the swapped dimensions or by from_state with a position
\* hint, or an object of another type
Construct ==
    \E path \in {"from_int_list", "swapped", "hint", "object"} :
        LET nb == NewBuf(heap)
            hp == (nb :> heap[S.grid.buf]) @@ heap
            id == NewId({S.id})
        IN
        /\ op \in {"from_int_list", "from_state", "advance"}
        /\ heap' = IF path = "object" THEN heap ELSE hp
        /\ R' = CASE path = "from_int_list" -> from_int_list(hp, nb, S.dims, id)
                  [] path = "swapped" -> from_int_list(hp, nb, <<S.dims[2], S.dims[1]>>, id)
                  [] path = "hint" -> from_state(hp, np_reshape(nb, S.dims), <<0, 0>>, id)
                  [] path = "object" -> OtherObject(id)
        /\ op' = "construct"
        /\ UNCHANGED <<S, B, moves, applied, steps, init0, arg, ret>>

\* the two goals of the State's dimensions: R the row-major, B the transposed
FindGoals ==
    LET res == find_goals(heap, S, NewId({S.id}), NewId({S.id, NewId({S.id})})) IN
    /\ R = NoObj
    /\ moves = << >>
    /\ heap' = res.heap
    /\ R' = res.goal1
    /\ B' = res.goal2
    /\ op' = "find_goals"
    /\ UNCHANGED <<S, moves, applied, steps, init0, arg, ret>>

\* the caller keeps the successor and drops every other reference
Advance ==
    /\ op = "compute_move"
    /\ steps < MaxSteps
    /\ S' = R
    /\ heap' = (R.grid.buf :> heap[R.grid.buf])
    /\ R' = NoObj
    /\ B' = NoObj
    /\ moves' = << >>
    /\ applied' = NoMove
    /\ op' = "advance"
    /\ steps' = steps + 1
    /\ UNCHANGED <<init0, arg, ret>>

\* Construction and locate_tile on arbitrary input: a flat list of w*h cells
\* with at most MaxZeros cells 0 (the others distinct and positive), for
\* dimensions from 1 up
BuildDims == (1..MaxW) \X (1..MaxH)

ZeroSets(n) == {Z \in SUBSET (1..n) : Cardinality(Z) <= MaxZeros}

ListWithZeros(n, Z) == [i \in 1..n |-> IF i \in Z THEN 0 ELSE i]

InitBuild ==
    \E d \in BuildDims : \E Z \in ZeroSets(d[1] * d[2]) :
        /\ heap = (1 :> ListWithZeros(d[1] * d[2], Z))
        /\ S = NoObj
        /\ R = NoObj
        /\ B = NoObj
        /\ moves = << >>
        /\ applied = NoMove
        /\ op = "input"
        /\ steps = 0
        /\ init0 = [list |-> ListWithZeros(d[1] * d[2], Z), dims |-> d]
        /\ arg = [path |-> "", list |-> ListWithZeros(d[1] * d[2], Z), dims |-> d,
                  grid |-> np_reshape(1, d), tile |-> -1]
        /\ ret = NoRet

\* Puzzle(grid, dimension, empty_tile_position)
CallInit ==
    /\ op = "input"
    /\ R' = Puzzle_init(arg.grid, arg.dims, <<0, 0>>, 1)
    /\ arg' = [arg EXCEPT !.path = "Puzzle"]
    /\ op' = "build"
    /\ UNCHANGED <<heap, S, B, moves, applied, steps, init0, ret>>

\* Puzzle.from_state(state) and Puzzle.from_state(state, tile_pos)
CallFromState ==
    \E hint \in {NoPos, <<0, 0>>} :
        /\ op = "input"
        /\ R' = from_state(heap, arg.grid, hint, 1)
        /\ arg' = [arg EXCEPT !.path = IF hint = NoPos THEN "from_state" ELSE "from_state_hint"]
        /\ op' = "build"
        /\ UNCHANGED <<heap, S, B, moves, applied, steps, init0, ret>>

\* Puzzle.from_int_list(int_list, dimension)
CallFromIntList ==
    /\ op = "input"
    /\ R' = from_int_list(heap, 1, arg.dims, 1)
    /\ arg' = [arg EXCEPT !.path = "from_int_list"]
    /\ op' = "build"
    /\ UNCHANGED <<heap, S, B, moves, applied, steps, init0, ret>>

\* Puzzle.locate_tile(state, tile) for the empty marker, a tile value and a
\* value no cell holds
CallLocateTile ==
    \E tile \in {0, 1, Len(arg.list) + 1} :
        LET pos == locate_tile(heap, arg.grid, tile) IN
        /\ op = "input"
        /\ ret' = IF pos = NoPos THEN RaisedIn("Exception") ELSE Returned("pos", pos)
        /\ arg' = [arg EXCEPT !.path = "locate_tile", !.tile = tile]
        /\ op' = "locate_tile"
        /\ UNCHANGED <<heap, S, R, B, moves, applied, steps, init0>>

NextBuild ==
    \/ CallInit
    \/ CallFromState
    \/ CallFromIntList
    \/ CallLocateTile

SpecBuild == InitBuild /\ [][NextBuild]_vars

\* the search: expand the State, take a successor, go on from it
Next ==
    \/ GetMoves
    \/ ComputeMove
    \/ Advance

Spec == Init /\ [][Next]_vars

\* the search, with a second move applied to each successor
NextInverse ==
    \/ GetMoves
    \/ ComputeMove
    \/ Advance
    \/ ReverseMove
    \/ RepeatMove

SpecInverse == Init /\ [][NextInverse]_vars

\* one expansion of a constructed State, with second States built beside it
\* and cell writes through the States obtained
NextAlias ==
    \/ GetMoves
    \/ ComputeMove
    \/ RepeatMove
    \/ Construct
    \/ SetItem

SpecAlias == Init /\ [][NextAlias]_vars

\* the search, with two successors of each State held side by side
NextSiblings ==
    \/ GetMoves
    \/ ComputeMove
    \/ ComputeSibling
    \/ Advance

SpecSiblings == Init /\ [][NextSiblings]_vars

\* one expansion of a constructed State and second objects built beside it,
\* compared with !=
NextCompare ==
    \/ GetMoves
    \/ ComputeMove
    \/ Construct
    \/ CallNe

SpecCompare == Init /\ [][NextCompare]_vars

\* the goals of a constructed State, and cell writes through them
NextGoals ==
    \/ FindGoals
    \/ SetItem

SpecGoals == Init /\ [][NextGoals]_vars

----------------------------------------------------------------------------
(* Vocabulary of the properties *)

Coords(p) == (0..(p.dims[1] - 1)) \X (0..(p.dims[2] - 1))

Flat(hp, p) == hp[p.grid.buf]

Count(s, v) == Cardinality({i \in 1..Len(s) : s[i] = v})

\* the cached empty-cell coordinate is the location of the single 0 cell
Consistent(hp, p) ==
    /\ Count(Flat(hp, p), 0) = 1
    /\ p.pos = locate_tile(hp, p.grid, 0)

Horizontal(m) == m[3][2] = 0
Vertical(m) == m[3][1] = 0
IsLateral(m) == Horizontal(m) \/ Vertical(m)

Laterals(ms) == {i \in 1..Len(ms) : IsLateral(ms[i])}
Diagonals(ms) == {i \in 1..Len(ms) : ~IsLateral(ms[i])}

Wrap(c, d) == <<c[1] % d[1], c[2] % d[2]>>

\* C1: the State returned by compute_move for a generated move is the slide of
\* the tile at target into the empty cell: the 0 is located at target, the old
\* empty cell holds the tile that was at target, every other cell is unchanged.
C1_SlideIntoEmpty ==
    (op = "compute_move" /\ Consistent(heap, S)) =>
        /\ locate_tile(heap, R.grid, 0) = applied[2]
        /\ getitem(heap, R, S.pos) = getitem(heap, S, applied[2])
        /\ \A c \in Coords(S) \ {S.pos, applied[2]} :
              getitem(heap, R, c) = getitem(heap, S, c)

\* C2: in every State reached from a constructed State by generated moves, the
\* cached empty-cell coordinate is where locate_tile finds the 0.
C2_CachedMatchesGrid ==
    /\ get_current_pos(S) = locate_tile(heap, S.grid, 0)
    /\ (op = "compute_move" => get_current_pos(R) = locate_tile(heap, R.grid, 0))

\* C3: after any sequence of generated moves the grid is a permutation of the
\* initial cell values (exactly one 0) and its shape is (height, width) of the
\* unchanged dimensions.
PermutationOfInit(p) ==
    /\ Len(Flat(heap, p)) = Len(init0.list)
    /\ \A v \in 0..(Len(init0.list) - 1) : Count(Flat(heap, p), v) = Count(init0.list, v)
    /\ Count(Flat(heap, p), 0) = 1
    /\ get_dimensions(p) = init0.dims
    /\ <<p.grid.rows, p.grid.cols>> = <<init0.dims[2], init0.dims[1]>>

C3_PermutationAndShape ==
    /\ PermutationOfInit(S)
    /\ (op = "compute_move" => PermutationOfInit(R))

C3_Witness ==
    /\ steps >= 1
    /\ op = "compute_move"
    /\ Flat(heap, R) # init0.list
    /\ Flat(heap, R) # Flat(heap, S)

\* C4: a lateral move costs 2 exactly when it crosses a seam of an axis larger
\* than 2, and 1 otherwise; a move along a size-2 axis costs 1; on 4x4 with the
\* empty cell at (0,0) the moves to (3,0) and (0,3) cost 2.
Seam(p, m) ==
    \/ (p.dims[1] > 2 /\ {m[2][1], p.pos[1]} = {0, p.dims[1] - 1})
    \/ (p.dims[2] > 2 /\ {m[2][2], p.pos[2]} = {0, p.dims[2] - 1})

C4_LateralCost ==
    moves # << >> =>
        /\ \A i \in Laterals(moves) :
              /\ moves[i][1] = (IF Seam(S, moves[i]) THEN 2 ELSE 1)
              /\ (Horizontal(moves[i]) /\ S.dims[1] = 2 => moves[i][1] = 1)
              /\ (Vertical(moves[i]) /\ S.dims[2] = 2 => moves[i][1] = 1)
        /\ (S.dims = <<4, 4>> /\ S.pos = <<0, 0>> =>
              /\ \E i \in Laterals(moves) : moves[i][2] = <<3, 0>> /\ moves[i][1] = 2
              /\ \E i \in Laterals(moves) : moves[i][2] = <<0, 3>> /\ moves[i][1] = 2)

C4_Witness ==
    /\ op = "get_moves"
    /\ S.dims = <<4, 4>>
    /\ S.pos = <<0, 0>>
    /\ \E i \in Laterals(moves) : moves[i][1] = 2
    /\ \E i \in Laterals(moves) : moves[i][1] = 1

\* C5: the lateral moves target exactly the toroidal 4-neighbours of the empty
\* cell, each distinct neighbour once; a size-2 axis gives one entry (labelled
\* (0,-1) for height 2, (-1,0) for width 2), a larger axis two; no two moves of
\* the whole list share a target.
Neighbours(p) ==
    {<<p.pos[1], (p.pos[2] - 1) % p.dims[2]>>, <<p.pos[1], (p.pos[2] + 1) % p.dims[2]>>,
     <<(p.pos[1] - 1) % p.dims[1], p.pos[2]>>, <<(p.pos[1] + 1) % p.dims[1], p.pos[2]>>}

C5_LateralTargets ==
    moves # << >> =>
        /\ {moves[i][2] : i \in Laterals(moves)} = Neighbours(S)
        /\ Cardinality(Laterals(moves)) = Cardinality(Neighbours(S))
        /\ Cardinality({i \in Laterals(moves) : Vertical(moves[i])})
              = (IF S.dims[2] = 2 THEN 1 ELSE 2)
        /\ Cardinality({i \in Laterals(moves) : Horizontal(moves[i])})
              = (IF S.dims[1] = 2 THEN 1 ELSE 2)
        /\ (S.dims[2] = 2 => \A i \in Laterals(moves) : Vertical(moves[i]) => moves[i][3] = <<0, -1>>)
        /\ (S.dims[1] = 2 => \A i \in Laterals(moves) : Horizontal(moves[i]) => moves[i][3] = <<-1, 0>>)
        /\ \A i, j \in 1..Len(moves) : moves[i][2] = moves[j][2] => i = j

C5_Witness ==
    /\ op = "get_moves"
    /\ S.dims = <<2, 3>>
    /\ Cardinality({i \in Laterals(moves) : Horizontal(moves[i])}) = 1
    /\ Cardinality({i \in Laterals(moves) : Vertical(moves[i])}) = 2

\* C6: diagonal moves (cost 3) are returned only from a corner of a grid that is
\* not 2x2: there exactly two, with distinct targets, each one step (+/-1 modulo
\* the size) away on both axes; elsewhere none.
Corner(p) ==
    p.pos \in {<<0, 0>>, <<p.dims[1] - 1, 0>>, <<0, p.dims[2] - 1>>,
               <<p.dims[1] - 1, p.dims[2] - 1>>}

OneStep(a, b, n) == a = (b + 1) % n \/ a = (b - 1) % n

C6_Diagonals ==
    moves # << >> =>
        /\ \A i \in 1..Len(moves) : moves[i][1] = 3 <=> i \in Diagonals(moves)
        /\ IF S.dims # <<2, 2>> /\ Corner(S)
           THEN /\ Cardinality(Diagonals(moves)) = 2
                /\ Cardinality({moves[i][2] : i \in Diagonals(moves)}) = 2
                /\ \A i \in Diagonals(moves) :
                      /\ OneStep(moves[i][2][1], S.pos[1], S.dims[1])
                      /\ OneStep(moves[i][2][2], S.pos[2], S.dims[2])
           ELSE Diagonals(moves) = {}

C6_Witness ==
    /\ op = "get_moves"
    /\ S.dims # <<2, 2>>
    /\ Corner(S)
    /\ Cardinality(Diagonals(moves)) = 2

\* C7 (as stated): a lateral move followed by the move with the same tile
\* coordinate and negated direction returns a State equal to the original.
C7_NegatedDirectionRestores ==
    (op = "reverse" /\ IsLateral(applied) /\ Consistent(heap, S)) => Puzzle_eq(heap, B, S)

\* size of the axis a lateral move runs along
AxisSize(p, m) == IF Horizontal(m) THEN p.dims[1] ELSE p.dims[2]

\* C7 (amended): a lateral move followed by the same move (same tile
\* coordinate, same direction) returns a State equal to the original; with the
\* negated direction it does so exactly when the axis of the move has size 2.
C7_RepeatedMoveRestores ==
    /\ (op = "repeat" /\ IsLateral(applied) /\ Consistent(heap, S)) => Puzzle_eq(heap, B, S)
    /\ (op = "reverse" /\ IsLateral(applied) /\ Consistent(heap, S)) =>
          (Puzzle_eq(heap, B, S) <=> AxisSize(S, applied) = 2)

C7_Witness ==
    /\ op = "repeat"
    /\ IsLateral(applied)
    /\ Consistent(heap, S)
    /\ AxisSize(S, applied) > 2
    /\ ~Puzzle_eq(heap, R, S)
    /\ Puzzle_eq(heap, B, S)

\* C8 (as stated): for every generated move the empty-cell coordinate of the
\* successor is the source's empty-cell coordinate plus the direction vector,
\* modulo (width, height).
C8_DirectionIsEmptyDisplacement ==
    op = "compute_move" =>
        get_current_pos(R) = Wrap(<<S.pos[1] + applied[3][1], S.pos[2] + applied[3][2]>>, S.dims)

\* C8 (amended): for a vertical lateral move the cached empty-cell coordinate
\* of the successor is the source's plus the direction vector; for a horizontal
\* lateral move and for a diagonal move it is the source's minus the direction
\* vector (the direction is the displacement of the sliding tile), modulo
\* (width, height).
C8_DirectionPerAxis ==
    op = "compute_move" =>
        IF Vertical(applied)
        THEN get_current_pos(R) = Wrap(<<S.pos[1] + applied[3][1], S.pos[2] + applied[3][2]>>, S.dims)
        ELSE get_current_pos(R) = Wrap(<<S.pos[1] - applied[3][1], S.pos[2] - applied[3][2]>>, S.dims)

C8_Witness ==
    /\ op = "compute_move"
    /\ ~Vertical(applied)
    /\ S.dims[1] > 2
    /\ get_current_pos(R) = Wrap(<<S.pos[1] - applied[3][1], S.pos[2] - applied[3][2]>>, S.dims)
    /\ get_current_pos(R) # Wrap(<<S.pos[1] + applied[3][1], S.pos[2] + applied[3][2]>>, S.dims)

\* what a caller can observe of a State: dimensions, cached empty cell, cells
Observed(hp, p) ==
    <<get_dimensions(p), get_current_pos(p), [c \in Coords(p) |-> getitem(hp, p, c)]>>

\* C9: get_moves and compute_move leave the source State as it was, the State
\* compute_move returns owns a grid of its own, and a later cell write to the
\* successor or to a State derived from it changes neither the source nor, for
\* the derived State, the successor.
C9_SourceUntouched ==
    [][/\ (op' \in {"get_moves", "compute_move", "reverse", "repeat", "setitem"} =>
              Observed(heap', S') = Observed(heap, S))
       /\ (op' = "compute_move" => R'.grid.buf # S'.grid.buf)
       /\ (op' \in {"reverse", "repeat"} => Observed(heap', R') = Observed(heap, R))
       /\ (op' = "setitem" /\ IsPuzzle(B) => Observed(heap', R') = Observed(heap, R))]_vars

C9_Witness ==
    /\ op = "setitem"
    /\ applied # NoMove
    /\ Count(Flat(heap, R), 0) = 2
    /\ Count(Flat(heap, S), 0) = 1

\* C10: two States compare equal exactly when their grids have the same shape
\* and the same cell at every coordinate, whatever their construction path and
\* cached empty-cell coordinate; equal States hash alike; States differing in a
\* single cell compare unequal.
SameGrid(hp, a, b) ==
    /\ <<a.grid.rows, a.grid.cols>> = <<b.grid.rows, b.grid.cols>>
    /\ get_dimensions(a) = get_dimensions(b)
    /\ \A c \in Coords(a) : getitem(hp, a, c) = getitem(hp, b, c)

DifferingCells(hp, a, b) == {c \in Coords(a) : getitem(hp, a, c) # getitem(hp, b, c)}

EqAgrees(hp, a, b) ==
    (IsPuzzle(a) /\ IsPuzzle(b)) =>
        /\ Puzzle_eq(hp, a, b) <=> SameGrid(hp, a, b)
        /\ Puzzle_eq(hp, a, b) => Puzzle_hash(hp, a) = Puzzle_hash(hp, b)
        /\ (get_dimensions(a) = get_dimensions(b) /\ Cardinality(DifferingCells(hp, a, b)) = 1)
              => ~Puzzle_eq(hp, a, b)

C10_EqualityIsGridEquality ==
    /\ EqAgrees(heap, S, R)
    /\ EqAgrees(heap, R, S)
    /\ EqAgrees(heap, S, B)
    /\ EqAgrees(heap, R, B)

C10_Witness ==
    /\ op = "construct"
    /\ Puzzle_eq(heap, S, R)
    /\ get_current_pos(R) # get_current_pos(S)
    /\ Puzzle_hash(heap, S) = Puzzle_hash(heap, R)

\* the cells of a State read row by row, and column by column
RowByRow(hp, p) ==
    [i \in 1..(p.dims[1] * p.dims[2]) |->
        getitem(hp, p, <<(i - 1) % p.dims[1], (i - 1) \div p.dims[1]>>)]

ColumnByColumn(hp, p) ==
    [i \in 1..(p.dims[1] * p.dims[2]) |->
        getitem(hp, p, <<(i - 1) \div p.dims[2], (i - 1) % p.dims[2]>>)]

\* C11: find_goals returns two States of the source's dimensions (w,h) with
\* cached empty cell (w-1,h-1): the first holds (y*w + x + 1) mod (w*h) at
\* (x,y), the second (x*h + y + 1) mod (w*h); for (3,3) the first reads
\* 1,2,3,4,5,6,7,8,0 row by row and the second reads the same column by column.
C11_GoalStates ==
    op = "find_goals" =>
        LET w == S.dims[1]
            h == S.dims[2]
        IN  /\ IsPuzzle(R) /\ IsPuzzle(B)
            /\ get_dimensions(R) = <<w, h>> /\ get_dimensions(B) = <<w, h>>
            /\ get_current_pos(R) = <<w - 1, h - 1>>
            /\ get_current_pos(B) = <<w - 1, h - 1>>
            /\ \A c \in Coords(S) :
                  /\ getitem(heap, R, c) = (c[2] * w + c[1] + 1) % (w * h)
                  /\ getitem(heap, B, c) = (c[1] * h + c[2] + 1) % (w * h)
            /\ (S.dims = <<3, 3>> =>
                  /\ RowByRow(heap, R) = <<1, 2, 3, 4, 5, 6, 7, 8, 0>>
                  /\ ColumnByColumn(heap, B) = <<1, 2, 3, 4, 5, 6, 7, 8, 0>>)

C11_Witness ==
    /\ op = "find_goals"
    /\ S.dims = <<3, 3>>
    /\ RowByRow(heap, R) = <<1, 2, 3, 4, 5, 6, 7, 8, 0>>
    /\ RowByRow(heap, B) = <<1, 4, 7, 2, 5, 8, 3, 6, 0>>

\* C18: the two goal States of one find_goals call share no grid storage: a
\* cell write through one of them leaves every cell of the other unchanged.
C18_GoalsShareNothing ==
    [][(op = "find_goals" /\ op' = "setitem") =>
          [c \in Coords(R) |-> getitem(heap', R', c)] = [c \in Coords(R) |-> getitem(heap, R, c)]]_vars

\* C12 (as stated): every construction path fails with ValueError and yields
\* no State whenever width < 2 or height < 2; with both >= 2 and an empty
\* marker present, construction succeeds.
C12_InvalidDimensionsRaiseValueError ==
    op = "build" =>
        /\ (arg.dims[1] < 2 \/ arg.dims[2] < 2) => R.kind = "ValueError"
        /\ (arg.dims[1] >= 2 /\ arg.dims[2] >= 2 /\ Count(arg.list, 0) >= 1) => IsPuzzle(R)

\* the coordinates whose cell holds v, and the first of them in row-major order
Holding(hp, a, v) ==
    {c \in (0..(a.cols - 1)) \X (0..(a.rows - 1)) : Element(hp, a, c[2], c[1]) = v}

FirstRowMajor(cs) ==
    CHOOSE c \in cs : \A e \in cs : c[2] < e[2] \/ (c[2] = e[2] /\ c[1] <= e[1])

\* C13: locate_tile returns the first coordinate in row-major order whose cell
\* equals the value, also when several do, raises the not-found error when
\* none does, and from_state without a hint fails on a grid without 0.
C13_LocateFirstRowMajor ==
    /\ op = "locate_tile" =>
          IF Holding(heap, arg.grid, arg.tile) = {}
          THEN ret = RaisedIn("Exception")
          ELSE ret = Returned("pos", FirstRowMajor(Holding(heap, arg.grid, arg.tile)))
    /\ (op = "build" /\ arg.path = "from_state" /\ Count(arg.list, 0) = 0) => ~IsPuzzle(R)

C13_Witness ==
    /\ op = "locate_tile"
    /\ arg.tile = 0
    /\ Cardinality(Holding(heap, arg.grid, 0)) = 2
    /\ ret.kind = "pos"
    /\ \E c \in Holding(heap, arg.grid, 0) : c[1] < ret.value[1] /\ c[2] > ret.value[2]

\* C14: for w,h >= 2 and a flat list L of w*h integers containing a 0,
\* from_int_list(L, (w,h)) has dimensions (w,h), cell (x,y) = L[y*w + x], and
\* cached empty cell at the first position of 0 in L.
FirstIndex(L, v) == CHOOSE i \in 1..Len(L) : L[i] = v /\ \A j \in 1..(i - 1) : L[j] # v

C14_FromIntList ==
    (/\ op = "build" /\ arg.path = "from_int_list"
     /\ arg.dims[1] >= 2 /\ arg.dims[2] >= 2 /\ Count(arg.list, 0) >= 1) =>
        /\ IsPuzzle(R)
        /\ get_dimensions(R) = arg.dims
        /\ \A x \in 0..(arg.dims[1] - 1) : \A y \in 0..(arg.dims[2] - 1) :
              getitem(heap, R, <<x, y>>) = arg.list[y * arg.dims[1] + x + 1]
        /\ get_current_pos(R) = <<(FirstIndex(arg.list, 0) - 1) % arg.dims[1],
                                  (FirstIndex(arg.list, 0) - 1) \div arg.dims[1]>>

C14_Witness ==
    /\ op = "build" /\ arg.path = "from_int_list"
    /\ arg.dims = <<2, 3>>
    /\ Count(arg.list, 0) = 2
    /\ IsPuzzle(R)
    /\ get_current_pos(R) = <<1, 1>>

\* the targets of the lateral entries of a move list, in list order
LateralTargets(ms) == [i \in 1..Cardinality(Laterals(ms)) |-> ms[i][2]]

\* laterals before diagonals, and the diagonal labelled with x-direction +1
\* before the one labelled -1
LateralsThenDiagonals(ms) ==
    /\ \A i \in Laterals(ms) : \A j \in Diagonals(ms) : i < j
    /\ \A i, j \in Diagonals(ms) : i < j => (ms[i][3][1] = 1 /\ ms[j][3][1] = -1)

VerticalTargets(p) ==
    IF p.dims[2] = 2
    THEN << <<p.pos[1], (p.pos[2] - 1) % 2>> >>
    ELSE << <<p.pos[1], (p.pos[2] - 1) % p.dims[2]>>, <<p.pos[1], (p.pos[2] + 1) % p.dims[2]>> >>

LeftTarget(p) == <<(p.pos[1] - 1) % p.dims[1], p.pos[2]>>
RightTarget(p) == <<(p.pos[1] + 1) % p.dims[1], p.pos[2]>>

\* C15 (as stated): laterals come before diagonals, in the order top, bottom,
\* left, right (a size-2 axis giving its single entry in place), then the first
\* and the second diagonal.
C15_TopBottomLeftRight ==
    moves # << >> =>
        /\ LateralsThenDiagonals(moves)
        /\ LateralTargets(moves) =
              VerticalTargets(S) \o (IF S.dims[1] = 2 THEN <<LeftTarget(S)>>
                                     ELSE <<LeftTarget(S), RightTarget(S)>>)

\* C15 (amended): laterals come before diagonals, in the order top, bottom,
\* right, left (a size-2 axis giving its single entry in place), then the first
\* and the second diagonal.
C15_TopBottomRightLeft ==
    moves # << >> =>
        /\ LateralsThenDiagonals(moves)
        /\ LateralTargets(moves) =
              VerticalTargets(S) \o (IF S.dims[1] = 2 THEN <<RightTarget(S)>>
                                     ELSE <<RightTarget(S), LeftTarget(S)>>)

C15_Witness ==
    /\ op = "get_moves"
    /\ Len(moves) = 6
    /\ moves[3][2] = RightTarget(S)
    /\ moves[4][2] = LeftTarget(S)
    /\ moves[5][1] = 3

\* C16: two States reached from the same initial State by generated moves that
\* compare equal (and so hash alike) have the same get_moves() list.
C16_EqualStatesSameMoves ==
    (op = "sibling" /\ Puzzle_eq(heap, R, B)) =>
        /\ Puzzle_hash(heap, R) = Puzzle_hash(heap, B)
        /\ get_moves(R) = get_moves(B)

\* C17: a != b completes without an error and is True exactly when a == b is
\* False, for every State a and every object b.
C17_NeIsNegatedEq ==
    op = "ne" => ret = Returned("bool", ~Puzzle_eq(heap, S, R))

====
